---- MODULE Spec2Model ----
(***************************************************************************)
(* Model of the YOLO object detection service of Tote Master               *)
(* (backend/python-yolo-service/main.py): the item builder                 *)
(* map_detection_to_item, the consolidation routine consolidate_items and  *)
(* the two request handlers /analyze and /analyze-multiple.                *)
(*                                                                         *)
(* A Python str is modelled as a sequence of one-character strings, so     *)
(* that str.lower(), str.title() and the f-string that builds the          *)
(* consolidation key are computed character by character.                  *)
(* A confidence score (a float in [0,1]) is modelled in fixed point, in    *)
(* units of 1/10000: 0.7999 is 7999.                                       *)
(***************************************************************************)
EXTENDS Integers, Sequences, FiniteSets, TLC

VARIABLES
    pc,            \* position of the call or request being executed
    items,         \* consolidate_items: the argument `items`
    consolidated,  \* consolidate_items: the returned list
    detection,     \* map_detection_to_item: the argument `detection`
    photo_url,     \* map_detection_to_item: the argument `photo_url`
    built,         \* map_detection_to_item: the returned DetectedItem
    request,       \* handler: the request (endpoint and its photo URLs)
    item_map,      \* consolidate_items: the dict item_map during the loop
    idx,           \* number of iterations a `for` loop is done with (photo URLs, items)
    all_items,     \* analyze_multiple_photos: the list all_items
    outcomes,      \* what fetch and detect did for each photo processed so far
    response       \* handler: the HTTP response, NoResponse until the handler ends

vars == <<pc, items, consolidated, item_map, detection, photo_url, built,
          request, idx, all_items, outcomes, response>>

(***************************************************************************)
(* Bounds of the model.                                                    *)
(***************************************************************************)
\* longest list handed to consolidate_items
MaxItems == 3
\* most photo URLs in one /analyze-multiple request
MaxPhotos == 2
\* most detections the detector returns for one photo
MaxDetections == 2

(***************************************************************************)
(* str.lower() and str.title() over the ASCII letters.                     *)
(***************************************************************************)
UpperLetters ==
    <<"A","B","C","D","E","F","G","H","I","J","K","L","M",
      "N","O","P","Q","R","S","T","U","V","W","X","Y","Z">>

LowerLetters ==
    <<"a","b","c","d","e","f","g","h","i","j","k","l","m",
      "n","o","p","q","r","s","t","u","v","w","x","y","z">>

\* the lowercase letter of each uppercase letter, and the converse
ToLower ==
    [c \in {UpperLetters[i] : i \in 1..26} |->
        LowerLetters[CHOOSE i \in 1..26 : UpperLetters[i] = c]]

ToUpper ==
    [c \in {LowerLetters[i] : i \in 1..26} |->
        UpperLetters[CHOOSE i \in 1..26 : LowerLetters[i] = c]]

IsCased(c) == c \in DOMAIN ToLower \/ c \in DOMAIN ToUpper

LowerChar(c) == IF c \in DOMAIN ToLower THEN ToLower[c] ELSE c

UpperChar(c) == IF c \in DOMAIN ToUpper THEN ToUpper[c] ELSE c

\* s.lower()
lower(s) == [i \in 1..Len(s) |-> LowerChar(s[i])]

\* s.title(): a letter that follows a letter is lowercased, any other letter
\* starts a word and is uppercased.
title(s) ==
    [i \in 1..Len(s) |->
        IF i > 1 /\ IsCased(s[i-1]) THEN LowerChar(s[i]) ELSE UpperChar(s[i])]

(***************************************************************************)
(* CATEGORY_MAPPING: YOLO class -> inventory category.                     *)
(***************************************************************************)
books == <<"b","o","o","k","s">>
clothing == <<"c","l","o","t","h","i","n","g">>
decorations == <<"d","e","c","o","r","a","t","i","o","n","s">>
electronics == <<"e","l","e","c","t","r","o","n","i","c","s">>
kitchen == <<"k","i","t","c","h","e","n">>
sports == <<"s","p","o","r","t","s">>
tools == <<"t","o","o","l","s">>
toys == <<"t","o","y","s">>
uncategorized == <<"u","n","c","a","t","e","g","o","r","i","z","e","d">>

\* the dict, as its set of <<key, value>> entries
CATEGORY_MAPPING == {
    << <<"l","a","p","t","o","p">>, electronics >>,
    << <<"c","e","l","l"," ","p","h","o","n","e">>, electronics >>,
    << <<"t","v">>, electronics >>,
    << <<"k","e","y","b","o","a","r","d">>, electronics >>,
    << <<"m","o","u","s","e">>, electronics >>,
    << <<"r","e","m","o","t","e">>, electronics >>,
    << <<"c","l","o","c","k">>, electronics >>,
    << <<"b","o","t","t","l","e">>, kitchen >>,
    << <<"w","i","n","e"," ","g","l","a","s","s">>, kitchen >>,
    << <<"c","u","p">>, kitchen >>,
    << <<"f","o","r","k">>, kitchen >>,
    << <<"k","n","i","f","e">>, kitchen >>,
    << <<"s","p","o","o","n">>, kitchen >>,
    << <<"b","o","w","l">>, kitchen >>,
    << <<"b","a","n","a","n","a">>, kitchen >>,
    << <<"a","p","p","l","e">>, kitchen >>,
    << <<"o","r","a","n","g","e">>, kitchen >>,
    << <<"b","r","o","c","c","o","l","i">>, kitchen >>,
    << <<"c","a","r","r","o","t">>, kitchen >>,
    << <<"p","i","z","z","a">>, kitchen >>,
    << <<"d","o","n","u","t">>, kitchen >>,
    << <<"c","a","k","e">>, kitchen >>,
    << <<"r","e","f","r","i","g","e","r","a","t","o","r">>, kitchen >>,
    << <<"m","i","c","r","o","w","a","v","e">>, kitchen >>,
    << <<"o","v","e","n">>, kitchen >>,
    << <<"t","o","a","s","t","e","r">>, kitchen >>,
    << <<"h","a","n","d","b","a","g">>, clothing >>,
    << <<"t","i","e">>, clothing >>,
    << <<"s","u","i","t","c","a","s","e">>, clothing >>,
    << <<"u","m","b","r","e","l","l","a">>, clothing >>,
    << <<"b","a","c","k","p","a","c","k">>, clothing >>,
    << <<"f","r","i","s","b","e","e">>, sports >>,
    << <<"s","k","i","s">>, sports >>,
    << <<"s","n","o","w","b","o","a","r","d">>, sports >>,
    << <<"s","p","o","r","t","s"," ","b","a","l","l">>, sports >>,
    << <<"k","i","t","e">>, sports >>,
    << <<"b","a","s","e","b","a","l","l"," ","b","a","t">>, sports >>,
    << <<"b","a","s","e","b","a","l","l"," ","g","l","o","v","e">>, sports >>,
    << <<"s","k","a","t","e","b","o","a","r","d">>, sports >>,
    << <<"s","u","r","f","b","o","a","r","d">>, sports >>,
    << <<"t","e","n","n","i","s"," ","r","a","c","k","e","t">>, sports >>,
    << <<"b","o","o","k">>, books >>,
    << <<"t","e","d","d","y"," ","b","e","a","r">>, toys >>,
    << <<"s","c","i","s","s","o","r","s">>, tools >>,
    << <<"h","a","i","r"," ","d","r","i","e","r">>, tools >>,
    << <<"t","o","o","t","h","b","r","u","s","h">>, tools >>,
    << <<"c","h","a","i","r">>, decorations >>,
    << <<"c","o","u","c","h">>, decorations >>,
    << <<"p","o","t","t","e","d"," ","p","l","a","n","t">>, decorations >>,
    << <<"b","e","d">>, decorations >>,
    << <<"d","i","n","i","n","g"," ","t","a","b","l","e">>, decorations >>,
    << <<"t","o","i","l","e","t">>, decorations >>,
    << <<"s","i","n","k">>, decorations >>,
    << <<"v","a","s","e">>, decorations >>
}

\* CATEGORY_MAPPING.get(key, default)
CategoryGet(key, default) ==
    IF \E e \in CATEGORY_MAPPING : e[1] = key
    THEN (CHOOSE e \in CATEGORY_MAPPING : e[1] = key)[2]
    ELSE default

(***************************************************************************)
(* map_detection_to_item                                                   *)
(***************************************************************************)
\* confidence_score >= 0.8
HighThreshold == 8000
\* confidence_score >= 0.5
MediumThreshold == 5000

\* f"{confidence_score:.0%}": the score times 100, rounded to the nearest
\* integer, a tie going to the even one.  (CPython rounds the double product;
\* for the scores of ScoreSet it is the value computed here.)
Percent(score) ==
    LET q == score \div 100
        r == score % 100
    IN  IF r > 50 THEN q + 1
        ELSE IF r < 50 THEN q
        ELSE IF q % 2 = 0 THEN q ELSE q + 1

\* f"Detected with {confidence_score:.0%} confidence"
Description(score) == <<"Detected with ", Percent(score), "% confidence">>

\* variant with strict comparisons: a score on a threshold falls in the lower tier
ConfidenceLevelStrict(confidence_score) ==
    IF confidence_score > HighThreshold THEN "high"
    ELSE IF confidence_score > MediumThreshold THEN "medium"
    ELSE "low"

\* the if / elif / else that determines confidence_level
ConfidenceLevel(confidence_score) ==
    IF confidence_score >= HighThreshold THEN "high"
    ELSE IF confidence_score >= MediumThreshold THEN "medium"
    ELSE "low"

map_detection_to_item(det, url) ==
    LET class_name == det.class
        confidence_score == det.confidence
    IN  [name        |-> title(class_name),
         description |-> Description(confidence_score),
         category    |-> CategoryGet(lower(class_name), uncategorized),
         quantity    |-> 1,
         condition   |-> "good",
         confidence  |-> ConfidenceLevel(confidence_score),
         aiGenerated |-> TRUE,
         sourcePhoto |-> url]

(***************************************************************************)
(* consolidate_items                                                       *)
(*                                                                         *)
(* item_map is a Python dict, which keeps its keys in insertion order: it  *)
(* is modelled as the sequence of its entries [key, item] in that order.   *)
(* The dict stores the input object itself and the merge updates it in     *)
(* place; the returned values are what is modelled here.  (An object that  *)
(* occurs twice in the input is, at its second occurrence, either not a    *)
(* representative and unchanged, or the representative itself, whose tier  *)
(* is then compared with itself: the result is that of the list of         *)
(* values.)                                                                *)
(***************************************************************************)
\* key = f"{item.name.lower()}-{item.category}"
Key(item) == lower(item.name) \o <<"-">> \o item.category

\* confidence_levels = {'high': 3, 'medium': 2, 'low': 1}
confidence_levels(level) ==
    CASE level = "high" -> 3
      [] level = "medium" -> 2
      [] level = "low" -> 1

\* key in item_map
HasKey(map, key) == \E k \in 1..Len(map) : map[k].key = key

\* the position of key in item_map
KeyIndex(map, key) == CHOOSE k \in 1..Len(map) : map[k].key = key

\* variant that forgets the increment
MergedQuantityUnchanged(rep, item) == rep.quantity

\* variant that sums the quantity fields instead of counting occurrences
MergedQuantitySum(rep, item) == rep.quantity + item.quantity

\* item_map[key].quantity += 1
MergedQuantity(rep, item) == rep.quantity + 1

\* variant that overwrites the tier whenever the two tiers differ
MergedConfidenceIfDifferent(rep, item) ==
    IF confidence_levels(item.confidence) # confidence_levels(rep.confidence)
    THEN item.confidence ELSE rep.confidence

\* variant in which the last occurrence's tier wins
MergedConfidenceLast(rep, item) == item.confidence

\* if new_level > current_level: item_map[key].confidence = item.confidence
MergedConfidence(rep, item) ==
    LET current_level == confidence_levels(rep.confidence)
        new_level == confidence_levels(item.confidence)
    IN  IF new_level > current_level THEN item.confidence ELSE rep.confidence

\* variant that keeps the occurrence of the highest tier as representative
MergeTakingBest(rep, item) ==
    IF confidence_levels(item.confidence) > confidence_levels(rep.confidence)
    THEN [item EXCEPT !.quantity = MergedQuantity(rep, item)]
    ELSE [rep EXCEPT !.quantity = MergedQuantity(rep, item)]

\* the branch `if key in item_map`: the representative after the merge
Merge(rep, item) ==
    [rep EXCEPT !.quantity = MergedQuantity(rep, item),
                !.confidence = MergedConfidence(rep, item)]

\* the body of `for item in items`
LoopBody(map, item) ==
    LET key == Key(item)
    IN  IF HasKey(map, key)
        THEN LET k == KeyIndex(map, key)
             IN  [map EXCEPT ![k].item = Merge(map[k].item, item)]
        ELSE Append(map, [key |-> key, item |-> item])

\* item_map after the loop has run over the first n items
RECURSIVE ItemMapAfter(_, _)
ItemMapAfter(its, n) ==
    IF n = 0 THEN <<>> ELSE LoopBody(ItemMapAfter(its, n - 1), its[n])

\* list(item_map.values())
Values(map) == [k \in 1..Len(map) |-> map[k].item]

consolidate_items(its) == Values(ItemMapAfter(its, Len(its)))

(***************************************************************************)
(* Values of variables that a call or request does not use.                *)
(***************************************************************************)
None == "None"

NoRequest == [endpoint |-> "none", photoUrls |-> <<>>]

\* no response sent yet
NoResponse == [status_code |-> 0]

(***************************************************************************)
(* A call of consolidate_items on a list of DetectedItem values: the lists *)
(* of up to MaxItems items drawn from the sets below.  The i-th item of a  *)
(* list carries its own description and source photo (as the lists of      *)
(* tests/test_main.py do: photo1.jpg, photo2.jpg), and condition and       *)
(* aiGenerated alternate, so that a field copied from another occurrence   *)
(* shows.                                                                  *)
(***************************************************************************)
Tiers == {"low", "medium", "high"}

QuantitySet == {1, 2}

\* <<name, category>> of the input items: two names that differ in case only,
\* and two items whose names and categories differ but contain a hyphen.
NameCategorySet ==
    { << <<"C","u","p">>, kitchen >>,
      << <<"c","u","p">>, kitchen >>,
      << <<"X","-","R","a","y">>, <<"f","i","l","m">> >>,
      << <<"X">>, <<"r","a","y","-","f","i","l","m">> >> }

InputItem(nc, level, qty, i) ==
    [name        |-> nc[1],
     description |-> <<"Test ", i>>,
     category    |-> nc[2],
     quantity    |-> qty,
     condition   |-> IF i % 2 = 1 THEN "good" ELSE "worn",
     confidence  |-> level,
     aiGenerated |-> (i % 2 = 1),
     sourcePhoto |-> <<"photo", i, ".jpg">>]

InputCores == NameCategorySet \X Tiers \X QuantitySet

InitConsolidate ==
    /\ pc = "consolidate_items"
    /\ \E n \in 0..MaxItems : \E c \in [1..n -> InputCores] :
          items = [i \in 1..n |-> InputItem(c[i][1], c[i][2], c[i][3], i)]
    /\ consolidated = <<>>
    /\ detection = None /\ photo_url = None /\ built = None
    /\ request = NoRequest /\ idx = 0 /\ all_items = <<>> /\ outcomes = <<>>
    /\ response = NoResponse
    /\ item_map = <<>>

\* consolidated = consolidate_items(items)
ConsolidateItems ==
    /\ pc = "consolidate_items"
    /\ consolidated' = consolidate_items(items)
    /\ pc' = "returned"
    /\ UNCHANGED <<item_map, items, detection, photo_url, built,
                   request, idx, all_items, outcomes, response>>

NextConsolidate == ConsolidateItems

SpecConsolidate == InitConsolidate /\ [][NextConsolidate]_vars

(***************************************************************************)
(* The loop of consolidate_items, one iteration at a time: item_map is     *)
(* empty at the start, each iteration handles the next item, and the       *)
(* values of item_map are returned after the last.  The lists are those of *)
(* InitConsolidate.                                                        *)
(***************************************************************************)
\* item_map = {}
InitLoop ==
    /\ pc = "for item in items"
    /\ \E n \in 0..MaxItems : \E c \in [1..n -> InputCores] :
          items = [i \in 1..n |-> InputItem(c[i][1], c[i][2], c[i][3], i)]
    /\ item_map = <<>>
    /\ idx = 0
    /\ consolidated = <<>>
    /\ detection = None /\ photo_url = None /\ built = None
    /\ request = NoRequest /\ all_items = <<>> /\ outcomes = <<>>
    /\ response = NoResponse

\* one iteration of `for item in items`
LoopIteration ==
    /\ pc = "for item in items"
    /\ idx < Len(items)
    /\ item_map' = LoopBody(item_map, items[idx + 1])
    /\ idx' = idx + 1
    /\ UNCHANGED <<pc, items, consolidated, detection, photo_url, built,
                   request, all_items, outcomes, response>>

\* return list(item_map.values())
LoopReturn ==
    /\ pc = "for item in items"
    /\ idx = Len(items)
    /\ consolidated' = Values(item_map)
    /\ pc' = "returned"
    /\ UNCHANGED <<item_map, items, idx, detection, photo_url, built,
                   request, all_items, outcomes, response>>

NextLoop ==
    \/ LoopIteration
    \/ LoopReturn

SpecLoop == InitLoop /\ [][NextLoop]_vars

(***************************************************************************)
(* A call of map_detection_to_item on one detection.                       *)
(***************************************************************************)
\* class names the detector may report: a mapped class, the same class in
\* another case, a class of two words, another mapped class, an unmapped class
LabelSet ==
    { <<"l","a","p","t","o","p">>,
      <<"L","a","p","t","o","p">>,
      <<"c","e","l","l"," ","p","h","o","n","e">>,
      <<"m","o","u","s","e">>,
      <<"w","i","d","g","e","t">> }

\* confidence scores, in units of 1/10000
ScoreSet == {0, 3000, 4500, 4999, 5000, 6500, 7999, 8000, 9200, 10000}

\* str(photo_url) of the i-th photo
Url(i) == <<"http://localhost:3000/uploads/photo", i, ".jpg">>

UrlSet == {Url(1), Url(2)}

InitBuild ==
    /\ pc = "map_detection_to_item"
    /\ detection \in [class : LabelSet, confidence : ScoreSet]
    /\ photo_url \in UrlSet
    /\ built = None
    /\ items = <<>> /\ consolidated = <<>>
    /\ request = NoRequest /\ idx = 0 /\ all_items = <<>> /\ outcomes = <<>>
    /\ response = NoResponse
    /\ item_map = <<>>

\* built = map_detection_to_item(detection, photo_url)
MapDetectionToItem ==
    /\ pc = "map_detection_to_item"
    /\ built' = map_detection_to_item(detection, photo_url)
    /\ pc' = "built"
    /\ UNCHANGED <<item_map, items, consolidated, detection, photo_url,
                   request, idx, all_items, outcomes, response>>

NextBuild == MapDetectionToItem

SpecBuild == InitBuild /\ [][NextBuild]_vars

(***************************************************************************)
(* The request handlers.  download_image and detect_objects are the        *)
(* external collaborators: each either returns or raises, and what the     *)
(* detector returns is any list of up to MaxDetections detections.         *)
(* outcomes records, for each photo the handler is done with, what they    *)
(* did.  A request for n photos asks for photo1.jpg .. photo<n>.jpg: the   *)
(* handlers never compare URLs.                                            *)
(***************************************************************************)
\* what detect_objects may return for a photo
DetectionSet ==
    { [class |-> <<"l","a","p","t","o","p">>, confidence |-> 9200],
      [class |-> <<"l","a","p","t","o","p">>, confidence |-> 6500],
      [class |-> <<"m","o","u","s","e">>, confidence |-> 8500] }

\* variant: the download failure reported as a server error
DownloadErrorAs500 == [status_code |-> 500, detail |-> "Failed to download image"]

\* download_image: raise HTTPException(status_code=400, ...)
DownloadError == [status_code |-> 400, detail |-> "Failed to download image"]

\* detect_objects: raise HTTPException(status_code=500, ...)
DetectError == [status_code |-> 500, detail |-> "Detection failed"]

\* AnalysisResponse(items=..., photosAnalyzed=...), sent with status 200
AnalysisResponse(its, photosAnalyzed) ==
    [status_code |-> 200, items |-> its, photosAnalyzed |-> photosAnalyzed]

\* items = [map_detection_to_item(det, str(photo_url)) for det in detections]
ItemsOf(detections, url) ==
    [k \in 1..Len(detections) |-> map_detection_to_item(detections[k], url)]

\* variant: all_items = items
ExtendReplacing(all, its) == its

\* all_items.extend(items)
Extend(all, its) == all \o its

\* variant that counts the photos analysed successfully
PhotosAnalyzedSucceeded(photoUrls, outs) ==
    Cardinality({i \in 1..Len(outs) : outs[i].detect = "ok"})

\* photosAnalyzed=len(request.photoUrls)
PhotosAnalyzed(photoUrls, outs) == Len(photoUrls)

FetchFailed == [fetch |-> "failed", detect |-> "not run", detections |-> <<>>]

DetectFailed == [fetch |-> "ok", detect |-> "failed", detections |-> <<>>]

Detected(detections) == [fetch |-> "ok", detect |-> "ok", detections |-> detections]

InitApi ==
    /\ pc = "download"
    /\ \/ \E u \in UrlSet : request = [endpoint |-> "/analyze", photoUrls |-> <<u>>]
       \/ \E n \in 0..MaxPhotos :
              request = [endpoint |-> "/analyze-multiple",
                         photoUrls |-> [i \in 1..n |-> Url(i)]]
    /\ idx = 0
    /\ all_items = <<>>
    /\ outcomes = <<>>
    /\ response = NoResponse
    /\ item_map = <<>>
    /\ items = <<>> /\ consolidated = <<>>
    /\ detection = None /\ photo_url = None /\ built = None

(* /analyze *)
\* image = download_image(str(request.photoUrl)) returns
AnalyzeDownload ==
    /\ request.endpoint = "/analyze"
    /\ pc = "download"
    /\ pc' = "detect"
    /\ UNCHANGED <<item_map, items, consolidated, detection, photo_url, built,
                   request, idx, all_items, outcomes, response>>

\* download_image raises: the exception leaves the handler
AnalyzeDownloadRaises ==
    /\ request.endpoint = "/analyze"
    /\ pc = "download"
    /\ outcomes' = Append(outcomes, FetchFailed)
    /\ response' = DownloadError
    /\ pc' = "done"
    /\ UNCHANGED <<item_map, items, consolidated, detection, photo_url, built,
                   request, idx, all_items>>

\* detections = detect_objects(image) returns; the items are built and
\* consolidated and the response returned
AnalyzeDetect ==
    /\ request.endpoint = "/analyze"
    /\ pc = "detect"
    /\ \E n \in 0..MaxDetections : \E detections \in [1..n -> DetectionSet] :
          /\ outcomes' = Append(outcomes, Detected(detections))
          /\ response' = AnalysisResponse(
                 consolidate_items(ItemsOf(detections, request.photoUrls[1])), 1)
    /\ pc' = "done"
    /\ UNCHANGED <<item_map, items, consolidated, detection, photo_url, built,
                   request, idx, all_items>>

\* detect_objects raises: the exception leaves the handler
AnalyzeDetectRaises ==
    /\ request.endpoint = "/analyze"
    /\ pc = "detect"
    /\ outcomes' = Append(outcomes, DetectFailed)
    /\ response' = DetectError
    /\ pc' = "done"
    /\ UNCHANGED <<item_map, items, consolidated, detection, photo_url, built,
                   request, idx, all_items>>

(* /analyze-multiple: for photo_url in request.photoUrls *)
\* image = download_image(str(photo_url)) returns
MultipleDownload ==
    /\ request.endpoint = "/analyze-multiple"
    /\ pc = "download"
    /\ idx < Len(request.photoUrls)
    /\ pc' = "detect"
    /\ UNCHANGED <<item_map, items, consolidated, detection, photo_url, built,
                   request, idx, all_items, outcomes, response>>

\* download_image raises: except Exception ... continue
MultipleDownloadRaises ==
    /\ request.endpoint = "/analyze-multiple"
    /\ pc = "download"
    /\ idx < Len(request.photoUrls)
    /\ outcomes' = Append(outcomes, FetchFailed)
    /\ idx' = idx + 1
    /\ UNCHANGED <<item_map, pc, items, consolidated, detection, photo_url, built,
                   request, all_items, response>>

\* detections = detect_objects(image) returns; the items are built and
\* all_items extended
MultipleDetect ==
    /\ request.endpoint = "/analyze-multiple"
    /\ pc = "detect"
    /\ \E n \in 0..MaxDetections : \E detections \in [1..n -> DetectionSet] :
          /\ outcomes' = Append(outcomes, Detected(detections))
          /\ all_items' =
                 Extend(all_items, ItemsOf(detections, request.photoUrls[idx + 1]))
    /\ idx' = idx + 1
    /\ pc' = "download"
    /\ UNCHANGED <<item_map, items, consolidated, detection, photo_url, built,
                   request, response>>

\* detect_objects raises: except Exception ... continue
MultipleDetectRaises ==
    /\ request.endpoint = "/analyze-multiple"
    /\ pc = "detect"
    /\ outcomes' = Append(outcomes, DetectFailed)
    /\ idx' = idx + 1
    /\ pc' = "download"
    /\ UNCHANGED <<item_map, items, consolidated, detection, photo_url, built,
                   request, all_items, response>>

\* after the loop: consolidate all_items and return the response
MultipleReturn ==
    /\ request.endpoint = "/analyze-multiple"
    /\ pc = "download"
    /\ idx = Len(request.photoUrls)
    /\ response' = AnalysisResponse(consolidate_items(all_items),
                                    PhotosAnalyzed(request.photoUrls, outcomes))
    /\ pc' = "done"
    /\ UNCHANGED <<item_map, items, consolidated, detection, photo_url, built,
                   request, idx, all_items, outcomes>>

Init == InitApi

Next ==
    \/ AnalyzeDownload
    \/ AnalyzeDownloadRaises
    \/ AnalyzeDetect
    \/ AnalyzeDetectRaises
    \/ MultipleDownload
    \/ MultipleDownloadRaises
    \/ MultipleDetect
    \/ MultipleDetectRaises
    \/ MultipleReturn

Spec == Init /\ [][Next]_vars

(***************************************************************************)
(* The service as a whole: a direct call of consolidate_items or a request *)
(* to one of the two handlers.                                             *)
(***************************************************************************)
InitService == InitConsolidate \/ InitApi

NextService ==
    \/ ConsolidateItems
    \/ AnalyzeDownload
    \/ AnalyzeDownloadRaises
    \/ AnalyzeDetect
    \/ AnalyzeDetectRaises
    \/ MultipleDownload
    \/ MultipleDownloadRaises
    \/ MultipleDetect
    \/ MultipleDetectRaises
    \/ MultipleReturn

SpecService == InitService /\ [][NextService]_vars

(***************************************************************************)
(* Vocabulary of the properties of consolidate_items.                      *)
(***************************************************************************)
\* the consolidation key as the specification defines it: the pair
\* (lowercase(name), category)
PairKey(item) == <<lower(item.name), item.category>>

SameKey(a, b) == PairKey(a) = PairKey(b)

\* the order low < medium < high
TierLeq(a, b) ==
    \/ a = "low"
    \/ b = "high"
    \/ a = b

\* the highest tier among the items of a non-empty list
MaxTier(its) ==
    CHOOSE t \in {its[i].confidence : i \in 1..Len(its)} :
        \A i \in 1..Len(its) : TierLeq(its[i].confidence, t)

AllSameKey(its) == \A i, j \in 1..Len(its) : SameKey(its[i], its[j])

DistinctKeys(its) ==
    \A i, j \in 1..Len(its) : i # j => ~SameKey(its[i], its[j])

\* the position of the first item of its that has the key of item
FirstIndex(its, item) ==
    CHOOSE i \in 1..Len(its) :
        /\ SameKey(its[i], item)
        /\ \A j \in 1..(i - 1) : ~SameKey(its[j], item)

\* the number of items after position i that have the key of its[i]
LaterDuplicates(its, i) ==
    Cardinality({j \in (i + 1)..Len(its) : SameKey(its[j], its[i])})

\* the positions at which a key occurs for the first time, in increasing order
RECURSIVE FirstOccurrences(_, _)
FirstOccurrences(its, n) ==
    IF n = 0 THEN <<>>
    ELSE IF \E j \in 1..(n - 1) : SameKey(its[j], its[n])
         THEN FirstOccurrences(its, n - 1)
         ELSE Append(FirstOccurrences(its, n - 1), n)

Returned == pc = "returned"

(***************************************************************************)
(* C1  consolidate_items of N >= 1 items that share one consolidation key  *)
(* returns exactly one item, whose quantity is N and whose tier is the     *)
(* highest tier of the inputs.                                             *)
(***************************************************************************)
\* C1 as stated: the quantity of the one returned item equals N.
C1_Original ==
    (Returned /\ Len(items) >= 1 /\ AllSameKey(items)) =>
        /\ Len(consolidated) = 1
        /\ consolidated[1].quantity = Len(items)
        /\ consolidated[1].confidence = MaxTier(items)

\* C1 as amended: consolidate_items of N >= 1 items that share one
\* consolidation key returns exactly one item, whose quantity is the quantity
\* of the first input item plus N - 1 (that is N when the first item has
\* quantity 1) and whose tier is the highest tier of the inputs.
C1_SameKeyMerge ==
    (Returned /\ Len(items) >= 1 /\ AllSameKey(items)) =>
        /\ Len(consolidated) = 1
        /\ consolidated[1].quantity = items[1].quantity + Len(items) - 1
        /\ (items[1].quantity = 1 => consolidated[1].quantity = Len(items))
        /\ consolidated[1].confidence = MaxTier(items)

\* three items of one key, the first of quantity 1 and of the lowest tier, the
\* highest tier first seen at the second: one item of quantity 3, tier high
C1_Witness ==
    /\ Returned
    /\ Len(items) = 3
    /\ AllSameKey(items)
    /\ items[1].quantity = 1
    /\ items[1].confidence = "low"
    /\ items[2].confidence = "high"
    /\ items[3].confidence = "medium"
    /\ Len(consolidated) = 1
    /\ consolidated[1].quantity = 3
    /\ consolidated[1].confidence = "high"

(***************************************************************************)
(* C2  consolidate_items of items with pairwise distinct consolidation     *)
(* keys (lowercase(name), category) returns the input list itself: one     *)
(* item per input item, every field unchanged, in the input's order.       *)
(***************************************************************************)
C2_DistinctKeysUnchanged ==
    (Returned /\ DistinctKeys(items)) => consolidated = items

(***************************************************************************)
(* C6  consolidate_items returns exactly one item per distinct             *)
(* consolidation key of the input, no two returned items share a key, and  *)
(* the returned items are in the order of the first occurrence of their    *)
(* keys.                                                                   *)
(***************************************************************************)
C6_OnePerKeyInFirstOccurrenceOrder ==
    Returned =>
        LET first == FirstOccurrences(items, Len(items))
        IN  /\ Len(consolidated) = Len(first)
            /\ \A k \in 1..Len(consolidated) :
                  PairKey(consolidated[k]) = PairKey(items[first[k]])
            /\ DistinctKeys(consolidated)

(***************************************************************************)
(* C9  the quantity of a returned item is the quantity of the first input  *)
(* item of its key plus the number of later input items of that key: each  *)
(* merge adds exactly 1, whatever the quantity of the item merged in.      *)
(***************************************************************************)
C9_QuantityCountsOccurrences ==
    Returned =>
        \A k \in 1..Len(consolidated) :
            LET i == FirstIndex(items, consolidated[k])
            IN  consolidated[k].quantity =
                    items[i].quantity + LaterDuplicates(items, i)

(***************************************************************************)
(* C7  for the permutations of a list of items that share one              *)
(* consolidation key, consolidate_items yields the same merged quantity    *)
(* and the same merged tier.                                               *)
(***************************************************************************)
PermutationsOf(n) ==
    {p \in [1..n -> 1..n] : \A i, j \in 1..n : p[i] = p[j] => i = j}

Permuted(its, p) == [i \in 1..Len(its) |-> its[p[i]]]

C10_OtherFieldsFromFirstOccurrence ==
    Returned =>
        \A k \in 1..Len(consolidated) :
            LET out == consolidated[k]
                first == items[FirstIndex(items, out)]
            IN  /\ out.name = first.name
                /\ out.category = first.category
                /\ out.description = first.description
                /\ out.condition = first.condition
                /\ out.aiGenerated = first.aiGenerated
                /\ out.sourcePhoto = first.sourcePhoto

\* a later duplicate, from another photo and with another spelling of the
\* name, supplies the winning tier; the returned item keeps the first's fields
C10_Witness ==
    /\ Returned
    /\ Len(items) >= 2
    /\ SameKey(items[1], items[2])
    /\ items[1].name # items[2].name
    /\ items[1].sourcePhoto # items[2].sourcePhoto
    /\ items[1].confidence = "low"
    /\ items[2].confidence = "high"
    /\ consolidated[1].confidence = "high"
    /\ consolidated[1].quantity > items[1].quantity
    /\ consolidated[1].name = items[1].name
    /\ consolidated[1].sourcePhoto = items[1].sourcePhoto

(***************************************************************************)
(* Vocabulary of the properties of the request handlers.                   *)
(***************************************************************************)
IsAnalyze == request.endpoint = "/analyze"

IsAnalyzeMultiple == request.endpoint = "/analyze-multiple"

Done == pc = "done"

Succeeded(outcome) == outcome.fetch = "ok" /\ outcome.detect = "ok"

HasItems(resp) == "items" \in DOMAIN resp

\* the items built from the first n photos, in request order, a photo whose
\* fetch or detect failed contributing none
RECURSIVE Pooled(_, _, _)
Pooled(outs, photoUrls, n) ==
    IF n = 0 THEN <<>>
    ELSE Pooled(outs, photoUrls, n - 1) \o
         (IF Succeeded(outs[n]) THEN ItemsOf(outs[n].detections, photoUrls[n])
          ELSE <<>>)

(***************************************************************************)
(* C3  /analyze-multiple never answers with an error, whatever photos fail *)
(* in fetch or in detect: its response is a success response whose         *)
(* photosAnalyzed is the number of URLs requested.                         *)
(***************************************************************************)
C3_MultipleAlwaysSucceeds ==
    IsAnalyzeMultiple =>
        /\ response = NoResponse \/ response.status_code = 200
        /\ Done =>
              /\ response.status_code = 200
              /\ HasItems(response)
              /\ response.photosAnalyzed = Len(request.photoUrls)

\* two photos requested, the fetch of one and the detection of the other
\* fail: a success response with photosAnalyzed = 2 and no item
C3_Witness ==
    /\ IsAnalyzeMultiple
    /\ Done
    /\ Len(request.photoUrls) = 2
    /\ outcomes = <<FetchFailed, DetectFailed>>
    /\ response.status_code = 200
    /\ response.photosAnalyzed = 2
    /\ response.items = <<>>

(***************************************************************************)
(* C4  /analyze-multiple processes the photos one after another in request *)
(* order; a failed photo contributes no item, discards nothing gathered    *)
(* before and does not stop the later photos; the returned items are       *)
(* consolidate_items of the concatenation, in request order, of the items  *)
(* of the photos whose fetch and detect both succeeded, so detections of   *)
(* one key in different photos are merged into one item.                   *)
(***************************************************************************)
C4_MultiplePoolsSucceededPhotos ==
    IsAnalyzeMultiple =>
        /\ idx = Len(outcomes)
        /\ idx <= Len(request.photoUrls)
        /\ all_items = Pooled(outcomes, request.photoUrls, idx)
        /\ Done =>
              /\ idx = Len(request.photoUrls)
              /\ response.items =
                     consolidate_items(Pooled(outcomes, request.photoUrls, idx))
              /\ DistinctKeys(response.items)
              /\ \A k \in 1..Len(response.items) :
                     \E i \in 1..idx :
                         /\ Succeeded(outcomes[i])
                         /\ response.items[k].sourcePhoto = request.photoUrls[i]

\* a laptop in photo A, a laptop and a mouse in photo B: one Laptop item of
\* quantity 2 and one Mouse item of quantity 1
C4_Witness ==
    /\ IsAnalyzeMultiple
    /\ Done
    /\ Len(request.photoUrls) = 2
    /\ request.photoUrls[1] # request.photoUrls[2]
    /\ Len(outcomes[1].detections) = 1
    /\ outcomes[1].detections[1].class = <<"l","a","p","t","o","p">>
    /\ Len(outcomes[2].detections) = 2
    /\ outcomes[2].detections[1].class = <<"l","a","p","t","o","p">>
    /\ outcomes[2].detections[2].class = <<"m","o","u","s","e">>
    /\ Len(response.items) = 2
    /\ response.items[1].name = <<"L","a","p","t","o","p">>
    /\ response.items[1].quantity = 2
    /\ response.items[1].sourcePhoto = request.photoUrls[1]
    /\ response.items[2].name = <<"M","o","u","s","e">>
    /\ response.items[2].quantity = 1
    /\ response.items[2].sourcePhoto = request.photoUrls[2]

(***************************************************************************)
(* C5  in /analyze a failure of the fetch aborts the request with a 4xx    *)
(* response and a failure of the detection with a 5xx response, neither    *)
(* carrying items; a response with items and photosAnalyzed = 1 is sent    *)
(* only when fetch and detect both succeeded.                              *)
(***************************************************************************)
C5_AnalyzeAbortsOnFailure ==
    IsAnalyze =>
        /\ ~Done => response = NoResponse
        /\ Done =>
              /\ Len(outcomes) = 1
              /\ outcomes[1].fetch = "failed" =>
                    /\ response.status_code \in 400..499
                    /\ ~HasItems(response)
              /\ outcomes[1].detect = "failed" =>
                    /\ response.status_code \in 500..599
                    /\ ~HasItems(response)
              /\ HasItems(response) =>
                    /\ Succeeded(outcomes[1])
                    /\ response.status_code = 200
                    /\ response.photosAnalyzed = 1
              /\ Succeeded(outcomes[1]) => HasItems(response)

\* the fetch fails: a 400 response without items
C5_Witness ==
    /\ IsAnalyze
    /\ Done
    /\ outcomes = <<FetchFailed>>
    /\ response.status_code = 400
    /\ ~HasItems(response)

(***************************************************************************)
(* C8  map_detection_to_item gives the tier high iff score >= 0.8, medium  *)
(* iff 0.5 <= score < 0.8 and low iff score < 0.5 (0.8 -> high,            *)
(* 0.7999 -> medium, 0.5 -> medium, 0.4999 -> low), and every item it      *)
(* builds has quantity 1 and condition 'good'.                             *)
(***************************************************************************)
C8_TierThresholds ==
    pc = "built" =>
        LET score == detection.confidence
        IN  /\ built.confidence = "high" <=> score >= 8000
            /\ built.confidence = "medium" <=> (5000 <= score /\ score < 8000)
            /\ built.confidence = "low" <=> score < 5000
            /\ score = 8000 => built.confidence = "high"
            /\ score = 7999 => built.confidence = "medium"
            /\ score = 5000 => built.confidence = "medium"
            /\ score = 4999 => built.confidence = "low"
            /\ built.quantity = 1
            /\ built.condition = "good"

\* the score 0.8 itself is built into an item of tier high and quantity 1
C8_Witness ==
    /\ pc = "built"
    /\ detection.confidence = 8000
    /\ built.confidence = "high"
    /\ built.quantity = 1
    /\ built.condition = "good"

(***************************************************************************)
(* C11  at every step of the consolidation loop, for every key already in  *)
(* the map, the representative's quantity is a positive integer that never *)
(* decreases and its tier never decreases under low < medium < high: a     *)
(* merge overwrites the tier only when the incoming item's tier ranks      *)
(* strictly higher, and leaves it unchanged otherwise.                     *)
(***************************************************************************)
\* low < medium < high, strictly
TierLess(a, b) == TierLeq(a, b) /\ a # b

\* every representative has a positive integer quantity
C11_QuantitiesPositive ==
    \A k \in 1..Len(item_map) :
        /\ item_map[k].item.quantity \in Nat
        /\ item_map[k].item.quantity >= 1

\* what one step does to the representatives already in the map
C11_StepMonotone ==
    /\ Len(item_map') >= Len(item_map)
    /\ \A k \in 1..Len(item_map) :
          LET old == item_map[k].item
              new == item_map'[k].item
          IN  /\ item_map'[k].key = item_map[k].key
              /\ new.quantity >= old.quantity
              /\ TierLeq(old.confidence, new.confidence)
              /\ (pc = "for item in items" /\ idx < Len(items)) =>
                    LET incoming == items[idx + 1]
                    IN  IF Key(incoming) = item_map[k].key
                        THEN /\ new.quantity = old.quantity + 1
                             /\ new.confidence =
                                  IF TierLess(old.confidence, incoming.confidence)
                                  THEN incoming.confidence
                                  ELSE old.confidence
                        ELSE new = old

C11_LoopMonotone == [](C11_QuantitiesPositive) /\ [][C11_StepMonotone]_vars

\* after two iterations on two items of one key, the first of tier high and
\* the second of tier low: one representative, its quantity raised by 1 and
\* its tier still high
C11_Witness ==
    /\ pc = "for item in items"
    /\ idx = 2
    /\ Len(item_map) = 1
    /\ items[1].confidence = "high"
    /\ items[2].confidence = "low"
    /\ item_map[1].item.confidence = "high"
    /\ item_map[1].item.quantity = items[1].quantity + 1

(***************************************************************************)
(* C12  conservation of count: when every input item has quantity 1, the   *)
(* quantities of the items returned by consolidate_items sum to the number *)
(* of input items; hence the quantities in the response of /analyze and of *)
(* /analyze-multiple sum to the number of detections returned for the      *)
(* photos that were processed successfully.                                *)
(***************************************************************************)
RECURSIVE SumQuantities(_, _)
SumQuantities(its, n) ==
    IF n = 0 THEN 0 ELSE SumQuantities(its, n - 1) + its[n].quantity

\* the number of detections returned for the first n photos
RECURSIVE DetectionCount(_, _)
DetectionCount(outs, n) ==
    IF n = 0 THEN 0
    ELSE DetectionCount(outs, n - 1) +
         (IF Succeeded(outs[n]) THEN Len(outs[n].detections) ELSE 0)

C12_CountConserved ==
    /\ (Returned /\ \A i \in 1..Len(items) : items[i].quantity = 1) =>
          SumQuantities(consolidated, Len(consolidated)) = Len(items)
    /\ (Done /\ HasItems(response)) =>
          SumQuantities(response.items, Len(response.items)) =
              DetectionCount(outcomes, Len(outcomes))

\* the detection fails on the first of two photos and finds two laptops on
\* the second: one item of quantity 2
C12_Witness ==
    /\ IsAnalyzeMultiple
    /\ Done
    /\ Len(outcomes) = 2
    /\ outcomes[1] = DetectFailed
    /\ Succeeded(outcomes[2])
    /\ Len(outcomes[2].detections) = 2
    /\ outcomes[2].detections[1].class = outcomes[2].detections[2].class
    /\ Len(response.items) = 1
    /\ response.items[1].quantity = 2

====
